---- MODULE Spec2Model ----
(***************************************************************************)
(* Model of the job-hunt agents' tool layer (src/agents/tools/fs.py) and   *)
(* of the controller agent's pipeline instruction                          *)
(* (src/agents/jobhunt/agent.py).                                          *)
(*                                                                         *)
(* Text is a sequence of Unicode code points (naturals); file data is a    *)
(* sequence of bytes (naturals).  The file system is a tree of resolved    *)
(* paths, each holding nothing, a directory or a regular file.             *)
(***************************************************************************)
EXTENDS Integers, Sequences, FiniteSets, TLC

VARIABLES
    fs,        \* the file system: resolved path -> entry
    call,      \* the last tool call: its name, arguments and returned dict
    nops,      \* number of tool calls made so far
    hdr,       \* the header the ledger calls of this run pass
    ledger,    \* per path: what csv_append_row did to it so far
    runs,      \* per pipeline run: the folder-name call and its tool_context.state
    ctl,       \* the controller agent's run: step, inputs, agent calls, reply
    job,       \* one job's artifacts: the tailor's and the scorer's tool calls
    appends    \* csv_append_row calls in progress, statement by statement

fsvars == <<fs, call, nops, hdr, ledger>>
vars == <<fsvars, runs, ctl, job, appends>>

\* No controller run is in progress.
NoRun == [pc |-> "idle"]

\* No job's artifacts are being produced.
NoJob == [pc |-> "idle"]

----------------------------------------------------------------------------
(* Text and bytes *)

IsSurrogate(c) == c >= 55296 /\ c <= 57343

\* str.encode("utf-8") of one code point.
Utf8Char(c) ==
    IF c < 128 THEN <<c>>
    ELSE IF c < 2048 THEN <<192 + (c \div 64), 128 + (c % 64)>>
    ELSE IF c < 65536
         THEN <<224 + (c \div 4096), 128 + ((c \div 64) % 64), 128 + (c % 64)>>
    ELSE <<240 + (c \div 262144), 128 + ((c \div 4096) % 64),
           128 + ((c \div 64) % 64), 128 + (c % 64)>>

\* str.encode("utf-8") raises UnicodeEncodeError on a lone surrogate.
Encodable(s) == \A i \in 1..Len(s) : ~IsSurrogate(s[i])

RECURSIVE Utf8(_)
Utf8(s) == IF s = <<>> THEN <<>> ELSE Utf8Char(Head(s)) \o Utf8(Tail(s))

----------------------------------------------------------------------------
(* Paths and the file system *)

Names == {"a", "b"}
ParentRef == ".."
PathLens == 1..2

\* The paths a caller passes: components that are names or "..".
InputPaths == UNION {[1..n -> Names \cup {ParentRef}] : n \in PathLens}

\* Resolved paths.  The working directory of the process is the root of the
\* modelled tree, so a relative path resolves against Root and ".." at Root
\* stays at Root.
Root == <<>>
Nodes == UNION {[1..n -> Names] : n \in PathLens}
AllNodes == Nodes \cup {Root}

Parent(p) == IF p = Root THEN Root ELSE SubSeq(p, 1, Len(p) - 1)

RECURSIVE ResolveFrom(_, _)
ResolveFrom(base, path) ==
    IF path = <<>> THEN base
    ELSE IF Head(path) = ParentRef THEN ResolveFrom(Parent(base), Tail(path))
    ELSE ResolveFrom(Append(base, Head(path)), Tail(path))

\* Path(path).expanduser().resolve()
resolve(path) == ResolveFrom(Root, path)

NoEntry == [kind |-> "none", data |-> <<>>]
DirEntry == [kind |-> "dir", data |-> <<>>]
FileEntry(bytes) == [kind |-> "file", data |-> bytes]

EmptyFs == [p \in AllNodes |-> IF p = Root THEN DirEntry ELSE NoEntry]

\* Path.exists(): os.stat succeeds (ENOENT and ENOTDIR read as "no").
Exists(f, p) == f[p].kind # "none"
IsDir(f, p) == f[p].kind = "dir"

Prefix(p, k) == SubSeq(p, 1, k)

\* os.mkdir(p): the errno the kernel answers, "OK" when the directory is made.
OsMkdir(f, p) ==
    IF p = Root THEN "EEXIST"
    ELSE IF \E k \in 0..(Len(p) - 1) : f[Prefix(p, k)].kind = "file" THEN "ENOTDIR"
    ELSE IF \E k \in 0..(Len(p) - 1) : f[Prefix(p, k)].kind = "none" THEN "ENOENT"
    ELSE IF Exists(f, p) THEN "EEXIST"
    ELSE "OK"

\* pathlib.Path.mkdir(parents, exist_ok): err is "OK" or the errno raised.
RECURSIVE PathMkdir(_, _, _, _)
PathMkdir(f, p, parents, exist_ok) ==
    LET e == OsMkdir(f, p) IN
    CASE e = "OK" -> [err |-> "OK", fs |-> [f EXCEPT ![p] = DirEntry]]
      [] e = "ENOENT" ->
            IF ~parents \/ Parent(p) = p THEN [err |-> e, fs |-> f]
            ELSE LET up == PathMkdir(f, Parent(p), TRUE, TRUE) IN
                 IF up.err # "OK" THEN up
                 ELSE PathMkdir(up.fs, p, FALSE, exist_ok)
      [] OTHER ->
            IF ~exist_ok \/ ~IsDir(f, p) THEN [err |-> e, fs |-> f]
            ELSE [err |-> "OK", fs |-> f]

\* Every entry below a file or below nothing is nothing.
WellFormed(f) ==
    /\ f[Root].kind = "dir"
    /\ \A p \in Nodes : Exists(f, p) => IsDir(f, Parent(p))

----------------------------------------------------------------------------
(* fs_mkdir *)

MaxOps == 2

Error(msg) == [status |-> "error", error_message |-> msg]

\* fs_mkdir with exist_ok left out of the mkdir call.
fs_mkdir_no_exist_ok(f, path) ==
    LET p == resolve(path)
        existed == Exists(f, p)
        m == PathMkdir(f, p, TRUE, FALSE)
    IN  IF m.err # "OK" THEN [fs |-> m.fs, ret |-> Error(m.err)]
        ELSE [fs |-> m.fs,
              ret |-> [status |-> "success", path |-> p, created |-> ~existed]]

fs_mkdir(f, path) ==
    LET p == resolve(path)
        existed == Exists(f, p)
        m == PathMkdir(f, p, TRUE, TRUE)
    IN  IF m.err # "OK" THEN [fs |-> m.fs, ret |-> Error(m.err)]
        ELSE [fs |-> m.fs,
              ret |-> [status |-> "success", path |-> p, created |-> ~existed]]

FsMkdir ==
    /\ nops < MaxOps
    /\ \E path \in InputPaths :
          LET r == fs_mkdir(fs, path) IN
          /\ fs' = r.fs
          /\ call' = [op |-> "fs_mkdir", path |-> path, ret |-> r.ret]
    /\ nops' = nops + 1
    /\ UNCHANGED <<hdr, ledger, runs, ctl, job, appends>>

----------------------------------------------------------------------------
(* fs_write_text *)

\* The texts a caller writes: "", "a", "e-acute", "euro a", and a lone
\* surrogate (what json.loads makes of "\ud800").
Contents == {<<>>, <<97>>, <<233>>, <<8364, 97>>, <<55296>>}

\* Path.write_bytes(b): open(p, "wb") and write.
WriteBytes(f, p, b) ==
    IF IsDir(f, p) THEN [err |-> "EISDIR", fs |-> f]
    ELSE IF ~IsDir(f, Parent(p)) THEN [err |-> "ENOENT", fs |-> f]
    ELSE [err |-> "OK", fs |-> [f EXCEPT ![p] = FileEntry(b)]]

\* fs_write_text without the exists-and-not-overwrite guard.
fs_write_text_no_guard(f, path, content, overwrite) ==
    LET p == resolve(path)
        m == PathMkdir(f, Parent(p), TRUE, TRUE)
    IN  IF m.err # "OK" THEN [fs |-> m.fs, ret |-> Error(m.err)]
        ELSE IF ~Encodable(content)
             THEN [fs |-> m.fs, ret |-> Error("UnicodeEncodeError")]
        ELSE LET b == Utf8(content)
                 w == WriteBytes(m.fs, p, b)
             IN  IF w.err # "OK" THEN [fs |-> w.fs, ret |-> Error(w.err)]
                 ELSE [fs |-> w.fs,
                       ret |-> [status |-> "success", path |-> p,
                                bytes |-> Len(b)]]

fs_write_text(f, path, content, overwrite) ==
    LET p == resolve(path) IN
    IF Exists(f, p) /\ ~overwrite
    THEN [fs |-> f, ret |-> Error("File exists and overwrite=false")]
    ELSE LET m == PathMkdir(f, Parent(p), TRUE, TRUE) IN
         IF m.err # "OK" THEN [fs |-> m.fs, ret |-> Error(m.err)]
         ELSE IF ~Encodable(content)
              THEN [fs |-> m.fs, ret |-> Error("UnicodeEncodeError")]
         ELSE LET b == Utf8(content)
                  w == WriteBytes(m.fs, p, b)
              IN  IF w.err # "OK" THEN [fs |-> w.fs, ret |-> Error(w.err)]
                  ELSE [fs |-> w.fs,
                        ret |-> [status |-> "success", path |-> p,
                                 bytes |-> Len(b)]]

FsWriteText ==
    /\ nops < MaxOps
    /\ \E path \in InputPaths, content \in Contents, overwrite \in BOOLEAN :
          LET r == fs_write_text(fs, path, content, overwrite) IN
          /\ fs' = r.fs
          /\ call' = [op |-> "fs_write_text", path |-> path, content |-> content,
                      overwrite |-> overwrite, ret |-> r.ret]
    /\ nops' = nops + 1
    /\ UNCHANGED <<hdr, ledger, runs, ctl, job, appends>>

NoCall == [op |-> "none", path |-> <<>>, ret |-> [status |-> "none"]]

InitFs ==
    /\ fs = EmptyFs
    /\ call = NoCall
    /\ nops = 0
    /\ hdr = <<>>
    /\ ledger = <<>>
    /\ runs = <<>>
    /\ ctl = NoRun
    /\ job = NoJob
    /\ appends = <<>>

NextFs == FsMkdir \/ FsWriteText

SpecFs == InitFs /\ [][NextFs]_vars

----------------------------------------------------------------------------
(* csv_append_row *)

MaxCsvCalls == 3

\* Column names "k", "j" and a key "z" no header holds.
KeyK == <<107>>
KeyJ == <<106>>
KeyZ == <<122>>
Headers == {<<KeyK>>, <<KeyK, KeyJ>>}

\* Row dicts: {}, {k: "v"}, {k: "a,b", j: 'q"'}, {j: "l\nm", z: "v"} and
\* {k: <lone surrogate>}.
Rows == { <<>>,
          KeyK :> <<118>>,
          (KeyK :> <<97, 44, 98>>) @@ (KeyJ :> <<113, 34>>),
          (KeyJ :> <<108, 10, 109>>) @@ (KeyZ :> <<118>>),
          KeyK :> <<55296>> }

LedgerPaths == {<<"a">>, <<"..", "a">>, <<"b", "a">>}

\* row.get(k, "")
Get(row, k) == IF k \in DOMAIN row THEN row[k] ELSE <<>>

\* csv.writer, dialect excel: a field holding the delimiter, the quote
\* character, CR or LF is quoted, with its quote characters doubled.
NeedsQuote(v) == \E i \in 1..Len(v) : v[i] \in {44, 34, 13, 10}

RECURSIVE DoubleQuotes(_)
DoubleQuotes(v) ==
    IF v = <<>> THEN <<>>
    ELSE (IF Head(v) = 34 THEN <<34, 34>> ELSE <<Head(v)>>) \o DoubleQuotes(Tail(v))

FormatField(v) == IF NeedsQuote(v) THEN <<34>> \o DoubleQuotes(v) \o <<34>> ELSE v

RECURSIVE JoinFields(_)
JoinFields(fields) ==
    IF fields = <<>> THEN <<>>
    ELSE IF Len(fields) = 1 THEN FormatField(fields[1])
    ELSE FormatField(Head(fields)) \o <<44>> \o JoinFields(Tail(fields))

\* writer.writerow: one record and the line terminator CR LF; a record of a
\* single empty field is written as a pair of quotes.
FormatRecord(fields) ==
    (IF Len(fields) = 1 /\ fields[1] = <<>> THEN <<34, 34>> ELSE JoinFields(fields))
        \o <<13, 10>>

\* p.open(mode): "w" creates or truncates, "a" creates or keeps.
OpenFile(f, p, mode) ==
    IF IsDir(f, p) THEN [err |-> "EISDIR", fs |-> f]
    ELSE IF ~IsDir(f, Parent(p)) THEN [err |-> "ENOENT", fs |-> f]
    ELSE IF mode = "w" \/ ~Exists(f, p)
         THEN [err |-> "OK", fs |-> [f EXCEPT ![p] = FileEntry(<<>>)]]
    ELSE [err |-> "OK", fs |-> f]

\* What the text file holds once the with-block closes it: the records whose
\* write() encoded, in order, up to the first one that raised.
AppendBytes(f, p, b) == [f EXCEPT ![p] = FileEntry(f[p].data \o b)]

\* csv_append_row writing the header on every call.
csv_append_row_always_header(f, csv_path, header, row) ==
    LET p == resolve(csv_path)
        created == ~Exists(f, p)
        m == PathMkdir(f, Parent(p), TRUE, TRUE)
    IN  IF m.err # "OK" THEN [fs |-> m.fs, ret |-> Error(m.err)]
        ELSE
        LET out_row == [i \in 1..Len(header) |-> Get(row, header[i])]
            mode == IF Exists(m.fs, p) THEN "a" ELSE "w"
            o == OpenFile(m.fs, p, mode)
        IN  IF o.err # "OK" THEN [fs |-> o.fs, ret |-> Error(o.err)]
            ELSE IF ~Encodable(FormatRecord(header))
            THEN [fs |-> o.fs, ret |-> Error("UnicodeEncodeError")]
            ELSE
            LET h == Utf8(FormatRecord(header)) IN
            IF ~Encodable(FormatRecord(out_row))
            THEN [fs |-> AppendBytes(o.fs, p, h), ret |-> Error("UnicodeEncodeError")]
            ELSE [fs |-> AppendBytes(o.fs, p, h \o Utf8(FormatRecord(out_row))),
                  ret |-> [status |-> "success", csv_path |-> p,
                           created |-> created, appended |-> TRUE]]

csv_append_row(f, csv_path, header, row) ==
    LET p == resolve(csv_path)
        created == ~Exists(f, p)
        m == PathMkdir(f, Parent(p), TRUE, TRUE)
    IN  IF m.err # "OK" THEN [fs |-> m.fs, ret |-> Error(m.err)]
        ELSE
        LET out_row == [i \in 1..Len(header) |-> Get(row, header[i])]
            mode == IF Exists(m.fs, p) THEN "a" ELSE "w"
            o == OpenFile(m.fs, p, mode)
        IN  IF o.err # "OK" THEN [fs |-> o.fs, ret |-> Error(o.err)]
            ELSE IF created /\ ~Encodable(FormatRecord(header))
            THEN [fs |-> o.fs, ret |-> Error("UnicodeEncodeError")]
            ELSE
            LET h == IF created THEN Utf8(FormatRecord(header)) ELSE <<>> IN
            IF ~Encodable(FormatRecord(out_row))
            THEN [fs |-> AppendBytes(o.fs, p, h), ret |-> Error("UnicodeEncodeError")]
            ELSE [fs |-> AppendBytes(o.fs, p, h \o Utf8(FormatRecord(out_row))),
                  ret |-> [status |-> "success", csv_path |-> p,
                           created |-> created, appended |-> TRUE]]

\* The bookkeeping of one ledger path: whether it was absent when the run
\* began, whether every call on it succeeded, the rows those calls passed
\* (as written, in header order) and the created flags they reported.
NoLedger(f) ==
    [p \in Nodes |-> [fresh |-> ~Exists(f, p), ok |-> TRUE, rows |-> <<>>,
                      created |-> <<>>]]

CsvAppendRow ==
    /\ nops < MaxCsvCalls
    /\ \E csv_path \in LedgerPaths, row \in Rows :
          LET r == csv_append_row(fs, csv_path, hdr, row)
              p == resolve(csv_path)
              out_row == [i \in 1..Len(hdr) |-> Get(row, hdr[i])]
          IN  /\ fs' = r.fs
              /\ call' = [op |-> "csv_append_row", path |-> csv_path, row |-> row,
                          ret |-> r.ret]
              /\ ledger' = [ledger EXCEPT ![p] =
                    IF r.ret.status = "success"
                    THEN [@ EXCEPT !.rows = Append(@, out_row),
                                   !.created = Append(@, r.ret.created)]
                    ELSE [@ EXCEPT !.ok = FALSE]]
    /\ nops' = nops + 1
    /\ UNCHANGED <<hdr, runs, ctl, job, appends>>

\* A ledger kept by an earlier program (bytes "o"), and a regular file where
\* a ledger's folder would be.
CsvInitFs ==
    { EmptyFs,
      [EmptyFs EXCEPT ![<<"a">>] = FileEntry(<<111>>)],
      [EmptyFs EXCEPT ![<<"b">>] = FileEntry(<<>>)] }

InitCsv ==
    /\ fs \in CsvInitFs
    /\ call = NoCall
    /\ nops = 0
    /\ hdr \in Headers
    /\ ledger = NoLedger(fs)
    /\ runs = <<>>
    /\ ctl = NoRun
    /\ job = NoJob
    /\ appends = <<>>

NextCsv == CsvAppendRow

SpecCsv == InitCsv /\ [][NextCsv]_vars

RECURSIVE Records(_)
Records(rows) == IF rows = <<>> THEN <<>>
                 ELSE Utf8(FormatRecord(Head(rows))) \o Records(Tail(rows))

\* C4: a ledger path that was absent when the run began and on which every
\* csv_append_row call so far succeeded (at least one) holds the header
\* record once, then the data records of the calls in call order; the first
\* call reported created = TRUE and every later call created = FALSE.
C4_HeaderOnce ==
    \A p \in Nodes :
        (ledger[p].fresh /\ ledger[p].ok /\ ledger[p].rows # <<>>) =>
            /\ fs[p] = FileEntry(Utf8(FormatRecord(hdr)) \o Records(ledger[p].rows))
            /\ ledger[p].created =
                  [i \in 1..Len(ledger[p].rows) |-> i = 1]

\* C4 witness: three successful calls on the fresh path whose folder had to
\* be made, under the two-column header.
C4_Witness ==
    /\ ledger[<<"b", "a">>].fresh
    /\ ledger[<<"b", "a">>].ok
    /\ Len(ledger[<<"b", "a">>].rows) = 3
    /\ Len(hdr) = 2

----------------------------------------------------------------------------
(* _sanitize_slug and util_make_job_folder_name *)

MaxSlugLen == 80
MaxTailLen == 3

\* str.lower() of one code point: ASCII and Latin-1 capitals move by 32, and
\* capital I with dot above (304) becomes "i" and a combining dot (775).
LowerChar(c) ==
    IF c >= 65 /\ c <= 90 THEN <<c + 32>>
    ELSE IF c >= 192 /\ c <= 222 /\ c # 215 THEN <<c + 32>>
    ELSE IF c = 304 THEN <<105, 775>>
    ELSE <<c>>

\* The concatenation of pieces[lo..hi], by halves.
RECURSIVE Flatten(_, _, _)
Flatten(pieces, lo, hi) ==
    IF lo > hi THEN <<>>
    ELSE IF lo = hi THEN pieces[lo]
    ELSE LET mid == (lo + hi) \div 2 IN
         Flatten(pieces, lo, mid) \o Flatten(pieces, mid + 1, hi)

Lower(s) == Flatten([i \in 1..Len(s) |-> LowerChar(s[i])], 1, Len(s))

\* What str.strip() and the pattern \s take for whitespace (up to Latin-1).
Whitespace == {9, 10, 11, 12, 13, 28, 29, 30, 31, 32, 133, 160}

\* [a-z0-9_]
SlugChars == (97..122) \cup (48..57) \cup {95}

\* str.strip(chars): the characters of class are dropped from both ends.
Strip(s, class) ==
    LET kept == {i \in 1..Len(s) : s[i] \notin class} IN
    IF kept = {} THEN <<>>
    ELSE SubSeq(s, CHOOSE i \in kept : \A j \in kept : i <= j,
                   CHOOSE i \in kept : \A j \in kept : i >= j)

\* re.sub with a pattern of the form X+: every maximal run of characters
\* matching X (hit[i] tells whether s[i] does) becomes repl.
ReSubRuns(hit, repl, s) ==
    Flatten([i \in 1..Len(s) |->
                IF ~hit[i] THEN <<s[i]>>
                ELSE IF i = 1 \/ ~hit[i - 1] THEN repl
                ELSE <<>>], 1, Len(s))

\* re.sub(class+, repl, s)
ReSub(class, repl, s) == ReSubRuns([i \in 1..Len(s) |-> s[i] \in class], repl, s)

\* re.sub([^class]+, repl, s)
ReSubNot(class, repl, s) ==
    ReSubRuns([i \in 1..Len(s) |-> s[i] \notin class], repl, s)

\* _sanitize_slug returning the whole string, however long.
sanitize_slug_no_truncate(s, max_len) ==
    LET s1 == Strip(Lower(s), Whitespace)
        s2 == ReSub(Whitespace, <<95>>, s1)
        s3 == ReSubNot(SlugChars, <<>>, s2)
    IN  Strip(ReSub({95}, <<95>>, s3), {95})

sanitize_slug(s, max_len) ==
    LET s1 == Strip(Lower(s), Whitespace)
        s2 == ReSub(Whitespace, <<95>>, s1)
        s3 == ReSubNot(SlugChars, <<>>, s2)
        s4 == Strip(ReSub({95}, <<95>>, s3), {95})
    IN  IF Len(s4) > max_len THEN SubSeq(s4, 1, max_len) ELSE s4

\* util_make_job_folder_name: the returned dict and the tool_context.state it
\* leaves.
util_make_job_folder_name(job_id, job_title) ==
    LET folder == job_id \o <<95>> \o sanitize_slug(job_title, MaxSlugLen) IN
    [state |-> [job_folder_name |-> folder],
     ret |-> [status |-> "success", folder_name |-> folder]]

NotCalled == [status |-> "none"]

UtilMakeJobFolderName ==
    /\ \E r \in DOMAIN runs :
          LET u == util_make_job_folder_name(runs[r].job_id, runs[r].job_title) IN
          runs' = [runs EXCEPT ![r].state = u.state, ![r].ret = u.ret]
    /\ UNCHANGED <<fsvars, ctl, job, appends>>

\* Titles: a run of "a" one short of max_len (or none), then up to
\* MaxTailLen characters of "A", "1", space, tab, "_", "-" and capital I
\* with dot above.
TailChars == {65, 49, 32, 9, 95, 45, 304}
Tails == UNION {[1..n -> TailChars] : n \in 0..MaxTailLen}
PadLens == {0, MaxSlugLen - 1}
Pad(k) == [i \in 1..k |-> 97]
Titles == {Pad(k) \o t : k \in PadLens, t \in Tails}

\* Job ids "j1" and "j_".
SlugJobIds == {<<106, 49>>, <<106, 95>>}

InitSlug ==
    /\ ctl = NoRun
    /\ job = NoJob
    /\ appends = <<>>
    /\ fs = EmptyFs
    /\ call = NoCall
    /\ nops = 0
    /\ hdr = <<>>
    /\ ledger = <<>>
    /\ \E job_id \in SlugJobIds, job_title \in Titles :
          runs = <<[job_id |-> job_id, job_title |-> job_title,
                    state |-> <<>>, ret |-> NotCalled]>>

NextSlug == UtilMakeJobFolderName

SpecSlug == InitSlug /\ [][NextSlug]_vars

\* The sanitized title as the specification words it, step by step, each step
\* on the result of the one before: lower-case; every whitespace run to one
\* underscore; delete what is outside [a-z0-9_]; collapse repeated
\* underscores; trim leading and trailing underscores; cut to 80.
ClaimedSlug(title) ==
    LET lowered == Lower(title)
        joined == ReSub(Whitespace, <<95>>, lowered)
        kept == SelectSeq(joined, LAMBDA c : c \in SlugChars)
        collapsed == ReSub({95}, <<95>>, kept)
        trimmed == Strip(collapsed, {95})
    IN  SubSeq(trimmed, 1, IF Len(trimmed) < 80 THEN Len(trimmed) ELSE 80)

\* C6: the folder name is the job id, one underscore and the sanitized title
\* as the specification describes it; the sanitized part holds only
\* characters of [a-z0-9_] and at most 80 of them; the same name is left in
\* tool_context.state.
C6_FolderName ==
    \A r \in DOMAIN runs :
        runs[r].ret.status = "success" =>
            LET name == runs[r].ret.folder_name
                n == Len(runs[r].job_id)
                part == SubSeq(name, n + 2, Len(name))
            IN  /\ name = runs[r].job_id \o <<95>> \o ClaimedSlug(runs[r].job_title)
                /\ \A i \in 1..Len(part) : part[i] \in SlugChars
                /\ Len(part) <= 80
                /\ runs[r].state.job_folder_name = name

\* C6 witness: a title longer than 80 characters is cut, and the cut leaves
\* an underscore at the end of the name.
C6_Witness ==
    /\ runs[1].ret.status = "success"
    /\ Len(runs[1].job_title) > 80
    /\ Len(runs[1].ret.folder_name) = Len(runs[1].job_id) + 81
    /\ runs[1].ret.folder_name[Len(runs[1].ret.folder_name)] = 95

\* Two pipeline runs, each with its own tool_context.  Job ids "j", "j_a"
\* and "k"; titles "a", "a a", "" and "A".
FolderJobIds == {<<106>>, <<106, 95, 97>>, <<107>>}
FolderTitles == {<<97>>, <<97, 32, 97>>, <<>>, <<65>>}

InitFolders ==
    /\ ctl = NoRun
    /\ job = NoJob
    /\ appends = <<>>
    /\ fs = EmptyFs
    /\ call = NoCall
    /\ nops = 0
    /\ hdr = <<>>
    /\ ledger = <<>>
    /\ \E i1 \in FolderJobIds, t1 \in FolderTitles,
          i2 \in FolderJobIds, t2 \in FolderTitles :
          runs = <<[job_id |-> i1, job_title |-> t1, state |-> <<>>, ret |-> NotCalled],
                   [job_id |-> i2, job_title |-> t2, state |-> <<>>, ret |-> NotCalled]>>

NextFolders == UtilMakeJobFolderName

SpecFolders == InitFolders /\ [][NextFolders]_vars

\* C7: two runs with different job ids get different job folder names.
C7_FoldersPartitioned ==
    \A r1, r2 \in DOMAIN runs :
        (/\ runs[r1].ret.status = "success"
         /\ runs[r2].ret.status = "success"
         /\ runs[r1].job_id # runs[r2].job_id)
        => runs[r1].state.job_folder_name # runs[r2].state.job_folder_name

----------------------------------------------------------------------------
(* text_unified_diff *)

MaxLines == 3

\* The line boundaries of str.splitlines().
LineBreaks == {10, 11, 12, 13, 28, 29, 30, 133, 8232, 8233}

\* str.splitlines(keepends=True); cur is the line read so far.
RECURSIVE SplitFrom(_, _)
SplitFrom(cur, rest) ==
    IF rest = <<>> THEN (IF cur = <<>> THEN <<>> ELSE <<cur>>)
    ELSE IF Head(rest) = 13 /\ Len(rest) > 1 /\ rest[2] = 10
         THEN <<cur \o <<13, 10>>>> \o SplitFrom(<<>>, Tail(Tail(rest)))
    ELSE IF Head(rest) \in LineBreaks
         THEN <<Append(cur, Head(rest))>> \o SplitFrom(<<>>, Tail(rest))
    ELSE SplitFrom(Append(cur, Head(rest)), Tail(rest))

SplitLines(text) == SplitFrom(<<>>, text)

\* difflib.SequenceMatcher over two lists of lines; positions are 0-based
\* and ranges half-open, as in the library.
RECURSIVE MatchLen(_, _, _, _, _, _)
MatchLen(a, b, i, j, ahi, bhi) ==
    IF i < ahi /\ j < bhi /\ a[i + 1] = b[j + 1]
    THEN 1 + MatchLen(a, b, i + 1, j + 1, ahi, bhi)
    ELSE 0

SetMax(S) == CHOOSE x \in S : \A y \in S : y <= x
SetMin(S) == CHOOSE x \in S : \A y \in S : x <= y

\* find_longest_match: the longest block, of those the one starting earliest
\* in a, of those the one starting earliest in b.
FindLongestMatch(a, b, alo, ahi, blo, bhi) ==
    LET cands == (alo..(ahi - 1)) \X (blo..(bhi - 1))
        size(c) == MatchLen(a, b, c[1], c[2], ahi, bhi)
    IN  IF cands = {} THEN [i |-> alo, j |-> blo, size |-> 0]
        ELSE LET best == SetMax({size(c) : c \in cands}) IN
             IF best = 0 THEN [i |-> alo, j |-> blo, size |-> 0]
             ELSE LET top == {c \in cands : size(c) = best}
                      i == SetMin({c[1] : c \in top})
                      j == SetMin({c[2] : c \in {d \in top : d[1] = i}})
                  IN  [i |-> i, j |-> j, size |-> best]

RECURSIVE BlocksIn(_, _, _, _, _, _)
BlocksIn(a, b, alo, ahi, blo, bhi) ==
    LET m == FindLongestMatch(a, b, alo, ahi, blo, bhi) IN
    IF m.size = 0 THEN <<>>
    ELSE BlocksIn(a, b, alo, m.i, blo, m.j) \o <<m>>
         \o BlocksIn(a, b, m.i + m.size, ahi, m.j + m.size, bhi)

\* Adjacent equal blocks are collapsed into one.
RECURSIVE Collapse(_)
Collapse(blocks) ==
    IF Len(blocks) < 2 THEN blocks
    ELSE LET x == blocks[1]
             y == blocks[2]
         IN  IF x.i + x.size = y.i /\ x.j + x.size = y.j
             THEN Collapse(<<[i |-> x.i, j |-> x.j, size |-> x.size + y.size]>>
                           \o SubSeq(blocks, 3, Len(blocks)))
             ELSE <<x>> \o Collapse(Tail(blocks))

GetMatchingBlocks(a, b) ==
    Append(Collapse(BlocksIn(a, b, 0, Len(a), 0, Len(b))),
           [i |-> Len(a), j |-> Len(b), size |-> 0])

Op(tag, i1, i2, j1, j2) == [tag |-> tag, i1 |-> i1, i2 |-> i2, j1 |-> j1, j2 |-> j2]

RECURSIVE OpcodesFrom(_, _, _)
OpcodesFrom(blocks, i, j) ==
    IF blocks = <<>> THEN <<>>
    ELSE LET m == Head(blocks)
             tag == IF i < m.i /\ j < m.j THEN "replace"
                    ELSE IF i < m.i THEN "delete"
                    ELSE IF j < m.j THEN "insert"
                    ELSE ""
             gap == IF tag = "" THEN <<>> ELSE <<Op(tag, i, m.i, j, m.j)>>
             same == IF m.size > 0
                     THEN <<Op("equal", m.i, m.i + m.size, m.j, m.j + m.size)>>
                     ELSE <<>>
         IN  gap \o same \o OpcodesFrom(Tail(blocks), m.i + m.size, m.j + m.size)

GetOpcodes(a, b) == OpcodesFrom(GetMatchingBlocks(a, b), 0, 0)

Max2(x, y) == IF x > y THEN x ELSE y
Min2(x, y) == IF x < y THEN x ELSE y

\* The first opcode, if "equal", keeps its last n lines; the last opcode, if
\* "equal", its first n lines.
TrimHead(c, n) ==
    Op(c.tag, Max2(c.i1, c.i2 - n), c.i2, Max2(c.j1, c.j2 - n), c.j2)

TrimTail(c, n) ==
    Op(c.tag, c.i1, Min2(c.i2, c.i1 + n), c.j1, Min2(c.j2, c.j1 + n))

\* The loop of get_grouped_opcodes: group is the group being filled.
RECURSIVE GroupFrom(_, _, _)
GroupFrom(codes, group, n) ==
    IF codes = <<>>
    THEN (IF group # <<>> /\ ~(Len(group) = 1 /\ group[1].tag = "equal")
          THEN <<group>> ELSE <<>>)
    ELSE LET c == Head(codes) IN
         IF c.tag = "equal" /\ c.i2 - c.i1 > n + n
         THEN <<Append(group, TrimTail(c, n))>>
              \o GroupFrom(Tail(codes), <<TrimHead(c, n)>>, n)
         ELSE GroupFrom(Tail(codes), Append(group, c), n)

FixFirst(codes, n) ==
    IF codes[1].tag = "equal" THEN [codes EXCEPT ![1] = TrimHead(codes[1], n)]
    ELSE codes

FixLast(codes, n) ==
    IF codes[Len(codes)].tag = "equal"
    THEN [codes EXCEPT ![Len(codes)] = TrimTail(codes[Len(codes)], n)]
    ELSE codes

\* An empty opcode list stands for one "equal" opcode.
OrOneEqual(codes) == IF codes = <<>> THEN <<Op("equal", 0, 1, 0, 1)>> ELSE codes

GetGroupedOpcodes(a, b, n) ==
    GroupFrom(FixLast(FixFirst(OrOneEqual(GetOpcodes(a, b)), n), n), <<>>, n)

RECURSIVE Decimal(_)
Decimal(k) == IF k < 10 THEN <<48 + k>> ELSE Decimal(k \div 10) \o <<48 + (k % 10)>>

\* _format_range_unified
FormatRange(start, stop) ==
    LET length == stop - start IN
    IF length = 1 THEN Decimal(start + 1)
    ELSE Decimal(IF length = 0 THEN start ELSE start + 1) \o <<44>> \o Decimal(length)

\* The lines a[lo..hi) each after the prefix character.
Prefixed(c, lines, lo, hi) == [k \in 1..(hi - lo) |-> <<c>> \o lines[lo + k]]

RECURSIVE OpLines(_, _, _)
OpLines(group, a, b) ==
    IF group = <<>> THEN <<>>
    ELSE LET c == Head(group) IN
         (IF c.tag = "equal" THEN Prefixed(32, a, c.i1, c.i2)
          ELSE (IF c.tag \in {"replace", "delete"}
                THEN Prefixed(45, a, c.i1, c.i2) ELSE <<>>)
               \o (IF c.tag \in {"replace", "insert"}
                   THEN Prefixed(43, b, c.j1, c.j2) ELSE <<>>))
         \o OpLines(Tail(group), a, b)

\* One hunk: "@@ -range +range @@\n" and the lines of its opcodes.
HunkLines(group, a, b) ==
    LET first == group[1]
        last == group[Len(group)]
    IN  <<(<<64, 64, 32, 45>> \o FormatRange(first.i1, last.i2) \o <<32, 43>>
           \o FormatRange(first.j1, last.j2) \o <<32, 64, 64, 10>>)>>
        \o OpLines(group, a, b)

RECURSIVE AllHunks(_, _, _)
AllHunks(groups, a, b) ==
    IF groups = <<>> THEN <<>>
    ELSE HunkLines(Head(groups), a, b) \o AllHunks(Tail(groups), a, b)

\* difflib.unified_diff: "--- fromfile\n" and "+++ tofile\n" before the
\* first hunk; nothing at all when there is no hunk.
UnifiedDiff(a, b, fromfile, tofile, n) ==
    LET groups == GetGroupedOpcodes(a, b, n) IN
    IF groups = <<>> THEN <<>>
    ELSE <<(<<45, 45, 45, 32>> \o fromfile \o <<10>>),
           (<<43, 43, 43, 32>> \o tofile \o <<10>>)>>
         \o AllHunks(groups, a, b)

StartsWith(line, pre) == Len(line) >= Len(pre) /\ SubSeq(line, 1, Len(pre)) = pre

RECURSIVE Concat(_)
Concat(lines) == IF lines = <<>> THEN <<>> ELSE Head(lines) \o Concat(Tail(lines))

\* The default labels "base" and "tailored".
FromName == <<98, 97, 115, 101>>
ToName == <<116, 97, 105, 108, 111, 114, 101, 100>>

\* The lines counted as changed: they start with "+" or "-" but not with
\* "+++" or "---".
ChangedLines(diff_lines) ==
    Cardinality({k \in 1..Len(diff_lines) :
        /\ StartsWith(diff_lines[k], <<43>>) \/ StartsWith(diff_lines[k], <<45>>)
        /\ ~(StartsWith(diff_lines[k], <<43, 43, 43>>)
              \/ StartsWith(diff_lines[k], <<45, 45, 45>>))})

DiffResult(diff_lines) ==
    [diff_lines |-> diff_lines,
     ret |-> [status |-> "success", diff |-> Concat(diff_lines),
              approx_changed_lines |-> ChangedLines(diff_lines)]]

\* text_unified_diff: the returned dict, and the list diff_lines it is made
\* from.
text_unified_diff(from_text, to_text, from_name, to_name, context_lines) ==
    DiffResult(UnifiedDiff(SplitLines(from_text), SplitLines(to_text),
                           from_name, to_name, context_lines))

\* Texts of up to MaxLines lines, each "a", "b", "c" or "--x" and a line feed.
DiffLines == {<<97, 10>>, <<98, 10>>, <<99, 10>>, <<45, 45, 120, 10>>}
DiffTexts == {Concat(ls) : ls \in UNION {[1..k -> DiffLines] : k \in 0..MaxLines}}
ContextChoices == {0, 1, 3}

TextUnifiedDiff ==
    /\ call.op = "pending"
    /\ LET r == text_unified_diff(call.from_text, call.to_text, FromName, ToName,
                                  call.context_lines)
       IN  call' = [op |-> "text_unified_diff", from_text |-> call.from_text,
                    to_text |-> call.to_text, context_lines |-> call.context_lines,
                    diff_lines |-> r.diff_lines, ret |-> r.ret]
    /\ UNCHANGED <<fs, nops, hdr, ledger, runs, ctl, job, appends>>

InitDiff ==
    /\ fs = EmptyFs
    /\ nops = 0
    /\ hdr = <<>>
    /\ ledger = <<>>
    /\ runs = <<>>
    /\ ctl = NoRun
    /\ job = NoJob
    /\ appends = <<>>
    /\ \E from_text \in DiffTexts, to_text \in DiffTexts, n \in ContextChoices :
          call = [op |-> "pending", from_text |-> from_text, to_text |-> to_text,
                  context_lines |-> n, ret |-> [status |-> "none"]]

NextDiff == TextUnifiedDiff

SpecDiff == InitDiff /\ [][NextDiff]_vars

\* C9: the call succeeds and approx_changed_lines is the number of removed
\* and added lines of the diff body, that is of the lines after the two file
\* header lines that begin with "-" or "+", whatever follows; and the diff of
\* "a\nb\n" against "a\nc\n" counts 2 and holds the lines "-b" and "+c".
C9_ChangedLines ==
    call.op = "text_unified_diff" =>
        LET body == SubSeq(call.diff_lines, 3, Len(call.diff_lines)) IN
        /\ call.ret.status = "success"
        /\ call.ret.approx_changed_lines =
              Cardinality({k \in 1..Len(body) : body[k][1] \in {43, 45}})
        /\ (call.from_text = <<97, 10, 98, 10>> /\ call.to_text = <<97, 10, 99, 10>>)
              => /\ call.ret.approx_changed_lines = 2
                 /\ \E k \in 1..Len(body) : body[k] = <<45, 98, 10>>
                 /\ \E k \in 1..Len(body) : body[k] = <<43, 99, 10>>

----------------------------------------------------------------------------
(* The controller agent: its instruction, step by step *)

MaxCalls == 3

\* How an input or an output field arrives: not there, there but empty, or
\* there with a value.
Presence == {"absent", "empty", "given"}

\* "missing/empty"
missing_only_absent(x) == x = "absent"

Missing(x) == x \in {"absent", "empty"}

\* The agents the pipeline steps call, in the order of the steps.
Agents ==
    <<"JobIntel", "ResumeTailor", "ResumeAnalyser", "CoverLetter", "Scorer",
      "ApplicationTracker">>

AgentSet == {Agents[i] : i \in DOMAIN Agents}

\* What an agent may answer. Lists are empty or hold one item.
Lists == {<<>>, <<"x">>}

JobIntelOutputs ==
    [job_id : Presence, must_have : Lists, keywords_for_ats : Lists,
     resume_focus : Lists, unverifiable : BOOLEAN]

ResumeTailorOutputs == [fabrication : BOOLEAN, matched_keywords : Lists]

OtherOutputs == [unverifiable : BOOLEAN]

Outputs(agent) ==
    IF agent = "JobIntel" THEN JobIntelOutputs
    ELSE IF agent = "ResumeTailor" THEN ResumeTailorOutputs
    ELSE OtherOutputs

NoOutput == [status |-> "none"]
NoReply == [status |-> "none"]

\* The JSON of the input collection rules.
WaitingForInput(field) ==
    [status |-> "waiting_for_input", missing_fields |-> <<field>>]

\* The final output.
Bundle(out) ==
    [status |-> "bundle", job_intel_json |-> out["JobIntel"],
     updated_resume_latex |-> out["ResumeTailor"],
     cover_letter |-> out["CoverLetter"],
     application_tracker_csv |-> out["ApplicationTracker"]]

\* Step 2: job_intel_json contains job_id, and must_have, keywords_for_ats
\* and resume_focus are non-empty.
JobIntelOk(o) ==
    /\ o.job_id # "absent"
    /\ o.must_have # <<>>
    /\ o.keywords_for_ats # <<>>
    /\ o.resume_focus # <<>>

\* Step 4, accepting on the risk flags alone.
resume_tailor_ok_flags_only(o) == ~o.fabrication

\* Step 4: no fabrication in risk_flags and matched_keywords not empty.
ResumeTailorOk(o) == ~o.fabrication /\ o.matched_keywords # <<>>

\* Input collection rules 1 and 2, then the pipeline.
InputRules ==
    /\ ctl.pc = "input"
    /\ ctl' = IF Missing(ctl.base_resume_path)
              THEN [ctl EXCEPT !.pc = "waiting_for_input",
                               !.reply = WaitingForInput("base_resume_path")]
              ELSE IF Missing(ctl.job_url) /\ Missing(ctl.raw_jd_text)
              THEN [ctl EXCEPT !.pc = "waiting_for_input",
                               !.reply = WaitingForInput("job_url_or_raw_jd_text")]
              ELSE [ctl EXCEPT !.pc = "step1"]
    /\ UNCHANGED <<fsvars, runs, job, appends>>

\* "Call ... Agent": the run after the agent answered o.
Called(c, agent, o, then) ==
    [c EXCEPT !.pc = then,
              !.calls[agent] = @ + 1,
              !.log = Append(@, agent),
              !.out[agent] = o]

\* "If any agent introduces unverifiable claims, stop and re-run that agent".
StopAndReRun(c, agent, again, then) ==
    IF c.out[agent].unverifiable
    THEN [c EXCEPT !.pc = again, !.refused[agent] = @ + 1]
    ELSE [c EXCEPT !.pc = then]

\* Step 1; the agent answers with any output it can give.
CallJobIntel ==
    /\ ctl.pc = "step1"
    /\ ctl.calls["JobIntel"] < MaxCalls
    /\ \E o \in Outputs("JobIntel") : ctl' = Called(ctl, "JobIntel", o, "step2")
    /\ UNCHANGED <<fsvars, runs, job, appends>>

\* Step 2: "If weak, re-run Job Intel".
ValidateJobIntel ==
    /\ ctl.pc = "step2"
    /\ ctl' = IF JobIntelOk(ctl.out["JobIntel"])
              THEN StopAndReRun(ctl, "JobIntel", "step1", "step3")
              ELSE [ctl EXCEPT !.pc = "step1", !.refused["JobIntel"] = @ + 1]
    /\ UNCHANGED <<fsvars, runs, job, appends>>

\* Step 3
CallResumeTailor ==
    /\ ctl.pc = "step3"
    /\ ctl.calls["ResumeTailor"] < MaxCalls
    /\ \E o \in Outputs("ResumeTailor") :
          ctl' = Called(ctl, "ResumeTailor", o, "step4")
    /\ UNCHANGED <<fsvars, runs, job, appends>>

\* Step 4: "Reject/redo": the run ends there or the tailor is called again.
CheckResumeTailor ==
    /\ ctl.pc = "step4"
    /\ IF ResumeTailorOk(ctl.out["ResumeTailor"])
       THEN ctl' = [ctl EXCEPT !.pc = "step5"]
       ELSE \E to \in {"rejected", "step3"} :
               ctl' = [ctl EXCEPT !.pc = to, !.refused["ResumeTailor"] = @ + 1]
    /\ UNCHANGED <<fsvars, runs, job, appends>>

\* Step 5
CallResumeAnalyser ==
    /\ ctl.pc = "step5"
    /\ ctl.calls["ResumeAnalyser"] < MaxCalls
    /\ \E o \in Outputs("ResumeAnalyser") :
          ctl' = Called(ctl, "ResumeAnalyser", o, "check5")
    /\ UNCHANGED <<fsvars, runs, job, appends>>

CheckResumeAnalyser ==
    /\ ctl.pc = "check5"
    /\ ctl' = StopAndReRun(ctl, "ResumeAnalyser", "step5", "step6")
    /\ UNCHANGED <<fsvars, runs, job, appends>>

\* Step 6
CallCoverLetter ==
    /\ ctl.pc = "step6"
    /\ ctl.calls["CoverLetter"] < MaxCalls
    /\ \E o \in Outputs("CoverLetter") :
          ctl' = Called(ctl, "CoverLetter", o, "check6")
    /\ UNCHANGED <<fsvars, runs, job, appends>>

CheckCoverLetter ==
    /\ ctl.pc = "check6"
    /\ ctl' = StopAndReRun(ctl, "CoverLetter", "step6", "step7")
    /\ UNCHANGED <<fsvars, runs, job, appends>>

\* Step 7: "if available".
CallScorer ==
    /\ ctl.pc = "step7"
    /\ ctl.scorer_available
    /\ ctl.calls["Scorer"] < MaxCalls
    /\ \E o \in Outputs("Scorer") : ctl' = Called(ctl, "Scorer", o, "check7")
    /\ UNCHANGED <<fsvars, runs, job, appends>>

CheckScorer ==
    /\ ctl.pc = "check7"
    /\ ctl' = StopAndReRun(ctl, "Scorer", "step7", "step8")
    /\ UNCHANGED <<fsvars, runs, job, appends>>

SkipScorer ==
    /\ ctl.pc = "step7"
    /\ ~ctl.scorer_available
    /\ ctl' = [ctl EXCEPT !.pc = "step8"]
    /\ UNCHANGED <<fsvars, runs, job, appends>>

\* Step 8
CallApplicationTracker ==
    /\ ctl.pc = "step8"
    /\ ctl.calls["ApplicationTracker"] < MaxCalls
    /\ \E o \in Outputs("ApplicationTracker") :
          ctl' = Called(ctl, "ApplicationTracker", o, "check8")
    /\ UNCHANGED <<fsvars, runs, job, appends>>

CheckApplicationTracker ==
    /\ ctl.pc = "check8"
    /\ ctl' = StopAndReRun(ctl, "ApplicationTracker", "step8", "step9")
    /\ UNCHANGED <<fsvars, runs, job, appends>>

\* Step 9: "Return consolidated bundle".
ReturnBundle ==
    /\ ctl.pc = "step9"
    /\ ctl' = [ctl EXCEPT !.pc = "done", !.reply = Bundle(ctl.out)]
    /\ UNCHANGED <<fsvars, runs, job, appends>>

InitCtl ==
    /\ job = NoJob
    /\ appends = <<>>
    /\ fs = EmptyFs
    /\ call = NoCall
    /\ nops = 0
    /\ hdr = <<>>
    /\ ledger = <<>>
    /\ runs = <<>>
    /\ \E base_resume_path \in Presence, job_url \in Presence,
          raw_jd_text \in Presence, scorer_available \in BOOLEAN :
          ctl = [pc |-> "input",
                 base_resume_path |-> base_resume_path,
                 job_url |-> job_url,
                 raw_jd_text |-> raw_jd_text,
                 scorer_available |-> scorer_available,
                 calls |-> [a \in AgentSet |-> 0],
                 refused |-> [a \in AgentSet |-> 0],
                 log |-> <<>>,
                 out |-> [a \in AgentSet |-> NoOutput],
                 reply |-> NoReply]

NextCtl ==
    \/ InputRules
    \/ CallJobIntel
    \/ ValidateJobIntel
    \/ CallResumeTailor
    \/ CheckResumeTailor
    \/ CallResumeAnalyser
    \/ CheckResumeAnalyser
    \/ CallCoverLetter
    \/ CheckCoverLetter
    \/ CallScorer
    \/ CheckScorer
    \/ SkipScorer
    \/ CallApplicationTracker
    \/ CheckApplicationTracker
    \/ ReturnBundle

SpecCtl == InitCtl /\ [][NextCtl]_vars

----------------------------------------------------------------------------
(* One job's artifacts: the resume tailor's and the scorer's tool calls *)

MaxTailorRuns == 2
MaxBytes == 2000000

Continuation(b) == b >= 128 /\ b <= 191

\* The first character of a byte string under strict UTF-8: its code point
\* and its length in bytes, or length 0 when the bytes are not valid.
Utf8First(b) ==
    LET n == Len(b)
        b1 == b[1]
    IN  IF b1 < 128 THEN [c |-> b1, n |-> 1]
        ELSE IF b1 >= 194 /\ b1 <= 223 /\ n >= 2 /\ Continuation(b[2])
             THEN [c |-> (b1 - 192) * 64 + (b[2] - 128), n |-> 2]
        ELSE IF b1 >= 224 /\ b1 <= 239 /\ n >= 3 /\ Continuation(b[2])
                /\ Continuation(b[3])
             THEN LET c == (b1 - 224) * 4096 + (b[2] - 128) * 64 + (b[3] - 128) IN
                  IF c >= 2048 /\ ~IsSurrogate(c) THEN [c |-> c, n |-> 3]
                  ELSE [c |-> 0, n |-> 0]
        ELSE IF b1 >= 240 /\ b1 <= 244 /\ n >= 4 /\ Continuation(b[2])
                /\ Continuation(b[3]) /\ Continuation(b[4])
             THEN LET c == (b1 - 240) * 262144 + (b[2] - 128) * 4096
                           + (b[3] - 128) * 64 + (b[4] - 128) IN
                  IF c >= 65536 /\ c <= 1114111 THEN [c |-> c, n |-> 4]
                  ELSE [c |-> 0, n |-> 0]
        ELSE [c |-> 0, n |-> 0]

\* data.decode("utf-8")
RECURSIVE Decode(_)
Decode(b) ==
    IF b = <<>> THEN [ok |-> TRUE, text |-> <<>>]
    ELSE LET h == Utf8First(b) IN
         IF h.n = 0 THEN [ok |-> FALSE, text |-> <<>>]
         ELSE LET rest == Decode(SubSeq(b, h.n + 1, Len(b))) IN
              [ok |-> rest.ok, text |-> <<h.c>> \o rest.text]

fs_read_text(f, path) ==
    LET p == resolve(path) IN
    IF ~Exists(f, p) \/ f[p].kind # "file" THEN Error("File not found")
    ELSE IF Len(f[p].data) > MaxBytes THEN Error("File too large")
    ELSE IF ~Decode(f[p].data).ok THEN Error("UnicodeDecodeError")
    ELSE [status |-> "success", path |-> p, content |-> Decode(f[p].data).text]

\* fs_sha256: the digest stands for the bytes it is computed from.
fs_sha256(f, path) ==
    LET p == resolve(path) IN
    IF ~Exists(f, p) \/ f[p].kind # "file" THEN Error("File not found")
    ELSE [status |-> "success", path |-> p, sha256 |-> f[p].data]

\* The names of the job's artifacts. "a" stands for the folder
\* <job_id>_<sanitized_job_title> and "b" for the folder the name comes out
\* as when job_id is missing; in the folder, "a" stands for the tailored
\* resume's file name and "b" for metrics.json.
job_folder(job_id) == IF job_id = "given" THEN <<"a">> ELSE <<"b">>
updated_resume_path(job_id) == job_folder(job_id) \o <<"a">>
metrics_path(job_id) == job_folder(job_id) \o <<"b">>

\* What the agents write: tailored LaTeX, and metrics.
TailoredContents == {<<116>>, <<116, 50>>}
MetricsContents == {<<123, 125>>}

\* Bytes of the base resume when the run begins: "r", or bytes that are not
\* UTF-8.
BaseBytes == {<<114>>, <<255>>}

\* f with a file of the given bytes at p, its missing folders made.
Place(f, p, bytes) ==
    LET m == PathMkdir(f, Parent(p), TRUE, TRUE) IN
    IF m.err # "OK" \/ IsDir(m.fs, p) THEN f
    ELSE [m.fs EXCEPT ![p] = FileEntry(bytes)]

\* Resume tailor, input validation 2: jobhunt_read_text(base_resume_path);
\* on an error the agent returns the error JSON.
TailorReadBase ==
    /\ job.pc = "read"
    /\ LET r == fs_read_text(fs, job.base_resume_path) IN
       job' = [job EXCEPT !.pc = IF r.status = "success" THEN "mkdir" ELSE "error",
                          !.ret = r]
    /\ UNCHANGED <<fs, call, nops, hdr, ledger, runs, ctl, appends>>

\* Artifact management 7: jobhunt_mkdir(folder_name).
TailorMkdir ==
    /\ job.pc = "mkdir"
    /\ LET m == fs_mkdir(fs, job_folder(job.job_id)) IN
       /\ fs' = m.fs
       /\ job' = [job EXCEPT !.pc = "write", !.ret = m.ret]
    /\ UNCHANGED <<call, nops, hdr, ledger, runs, ctl, appends>>

\* Artifact management 8 and 9: jobhunt_write_text of the updated resume,
\* with either value of overwrite; no write when that would overwrite the
\* base resume.
TailorWrite ==
    /\ job.pc = "write"
    /\ \E content \in TailoredContents, overwrite \in BOOLEAN :
          LET path == updated_resume_path(job.job_id) IN
          IF resolve(path) = resolve(job.base_resume_path)
          THEN /\ fs' = fs
               /\ job' = [job EXCEPT !.pc = "hash", !.ret = [status |-> "none"]]
          ELSE LET w == fs_write_text(fs, path, content, overwrite) IN
               /\ fs' = w.fs
               /\ job' = [job EXCEPT !.pc = "hash", !.ret = w.ret]
    /\ UNCHANGED <<call, nops, hdr, ledger, runs, ctl, appends>>

\* Artifact management 10 and 11: jobhunt_sha256, then the agent returns.
TailorSha256 ==
    /\ job.pc = "hash"
    /\ job' = [job EXCEPT !.pc = "returned",
                          !.ret = fs_sha256(fs, updated_resume_path(job.job_id))]
    /\ UNCHANGED <<fs, call, nops, hdr, ledger, runs, ctl, appends>>

\* The controller's "Reject/redo": the tailor is called again.
TailorRedo ==
    /\ job.pc = "returned"
    /\ job.tailor_runs < MaxTailorRuns
    /\ job' = [job EXCEPT !.pc = "read", !.tailor_runs = @ + 1]
    /\ UNCHANGED <<fs, call, nops, hdr, ledger, runs, ctl, appends>>

\* Scorer: "Save metrics.json into the job folder", with either value of
\* overwrite.
ScorerSave ==
    /\ job.pc = "returned"
    /\ \E content \in MetricsContents, overwrite \in BOOLEAN :
          LET w == fs_write_text(fs, metrics_path(job.job_id), content, overwrite) IN
          /\ fs' = w.fs
          /\ job' = [job EXCEPT !.pc = "scored", !.ret = w.ret]
    /\ UNCHANGED <<call, nops, hdr, ledger, runs, ctl, appends>>

\* The run begins with the base resume on disk, or missing; the job's
\* artifacts of an earlier run may be there.
InitJob ==
    /\ call = NoCall
    /\ nops = 0
    /\ hdr = <<>>
    /\ ledger = <<>>
    /\ runs = <<>>
    /\ ctl = NoRun
    /\ appends = <<>>
    /\ \E base_resume_path \in InputPaths, job_id \in {"given", "absent"},
          base \in BaseBytes, on_disk \in BOOLEAN, earlier \in BOOLEAN :
          LET p == resolve(base_resume_path)
              f1 == IF on_disk THEN Place(EmptyFs, p, base) ELSE EmptyFs
              f2 == IF earlier
                    THEN Place(Place(f1, updated_resume_path(job_id), <<116, 48>>),
                               metrics_path(job_id), <<123, 125>>)
                    ELSE f1
          IN  /\ p # Root
              /\ fs = f2
              /\ job = [pc |-> "read", base_resume_path |-> base_resume_path,
                        job_id |-> job_id, base_at_start |-> f2[p],
                        tailor_runs |-> 1, ret |-> [status |-> "none"]]

NextJob ==
    \/ TailorReadBase
    \/ TailorMkdir
    \/ TailorWrite
    \/ TailorSha256
    \/ TailorRedo
    \/ ScorerSave

SpecJob == InitJob /\ [][NextJob]_vars

----------------------------------------------------------------------------
(* csv_append_row, statement by statement, by processes that share the disk *)

Writers == 2

\* The header ["k"], the rows {k: "v"} and {k: "ww"}, and the ledger paths
\* "a" and "b/a".
AppendHeader == <<KeyK>>
AppendRows == {KeyK :> <<118>>, KeyK :> <<119, 119>>}
AppendPaths == {<<"a">>, <<"b", "a">>}

\* A ledger an earlier call left: the header and the row {k: "u"}.
EarlierLedger == Utf8(FormatRecord(AppendHeader)) \o Utf8(FormatRecord(<<<<117>>>>))

\* write() on a descriptor opened without O_APPEND: the bytes go at the
\* descriptor's offset, over what is there.
WriteAt(f, p, offset, b) ==
    LET old == f[p].data
        kept == IF Len(old) > offset + Len(b)
                THEN SubSeq(old, offset + Len(b) + 1, Len(old)) ELSE <<>>
    IN  [f EXCEPT ![p] = FileEntry(SubSeq(old, 1, offset) \o b \o kept)]

\* created = not p.exists()
AppendExists ==
    \E i \in DOMAIN appends :
        /\ appends[i].pc = "exists"
        /\ appends' = [appends EXCEPT ![i].pc = "mkdir",
                          ![i].created = ~Exists(fs, resolve(appends[i].csv_path))]
        /\ UNCHANGED <<fsvars, runs, ctl, job>>

\* p.parent.mkdir(parents=True, exist_ok=True)
AppendMkdir ==
    \E i \in DOMAIN appends :
        /\ appends[i].pc = "mkdir"
        /\ LET m == PathMkdir(fs, Parent(resolve(appends[i].csv_path)), TRUE, TRUE) IN
           /\ fs' = m.fs
           /\ appends' = IF m.err # "OK"
                         THEN [appends EXCEPT ![i].pc = "done", ![i].ret = Error(m.err)]
                         ELSE [appends EXCEPT ![i].pc = "mode"]
        /\ UNCHANGED <<call, nops, hdr, ledger, runs, ctl, job>>

\* mode = "a" if p.exists() else "w"
AppendMode ==
    \E i \in DOMAIN appends :
        /\ appends[i].pc = "mode"
        /\ appends' = [appends EXCEPT ![i].pc = "open",
                          ![i].mode = IF Exists(fs, resolve(appends[i].csv_path))
                                      THEN "a" ELSE "w"]
        /\ UNCHANGED <<fsvars, runs, ctl, job>>

\* p.open(mode, ...): "w" empties the file; the descriptor starts at 0.
AppendOpen ==
    \E i \in DOMAIN appends :
        /\ appends[i].pc = "open"
        /\ LET o == OpenFile(fs, resolve(appends[i].csv_path), appends[i].mode) IN
           /\ fs' = o.fs
           /\ appends' = IF o.err # "OK"
                         THEN [appends EXCEPT ![i].pc = "done", ![i].ret = Error(o.err)]
                         ELSE [appends EXCEPT ![i].pc = "header", ![i].offset = 0,
                                              ![i].buffer = <<>>]
        /\ UNCHANGED <<call, nops, hdr, ledger, runs, ctl, job>>

\* if created: writer.writeheader(); the bytes stay in the file object's
\* buffer.
AppendHeaderWrite ==
    \E i \in DOMAIN appends :
        /\ appends[i].pc = "header"
        /\ appends' =
              IF ~appends[i].created THEN [appends EXCEPT ![i].pc = "row"]
              ELSE IF ~Encodable(FormatRecord(hdr))
              THEN [appends EXCEPT ![i].pc = "close",
                                   ![i].ret = Error("UnicodeEncodeError")]
              ELSE [appends EXCEPT ![i].pc = "row",
                                   ![i].buffer = @ \o Utf8(FormatRecord(hdr))]
        /\ UNCHANGED <<fsvars, runs, ctl, job>>

\* writer.writerow(out_row), into the buffer.
AppendRowWrite ==
    \E i \in DOMAIN appends :
        /\ appends[i].pc = "row"
        /\ LET out_row == [k \in 1..Len(hdr) |-> Get(appends[i].row, hdr[k])] IN
           appends' =
              IF ~Encodable(FormatRecord(out_row))
              THEN [appends EXCEPT ![i].pc = "close",
                                   ![i].ret = Error("UnicodeEncodeError")]
              ELSE [appends EXCEPT ![i].pc = "close",
                       ![i].buffer = @ \o Utf8(FormatRecord(out_row)),
                       ![i].ret = [status |-> "success",
                                   csv_path |-> resolve(appends[i].csv_path),
                                   created |-> appends[i].created,
                                   appended |-> TRUE]]
        /\ UNCHANGED <<fsvars, runs, ctl, job>>

\* The end of the with block: the buffer is written, at the end of the file
\* in mode "a" and at the descriptor's offset in mode "w"; then the call
\* returns.
AppendClose ==
    \E i \in DOMAIN appends :
        /\ appends[i].pc = "close"
        /\ LET p == resolve(appends[i].csv_path) IN
           fs' = IF appends[i].mode = "a" THEN AppendBytes(fs, p, appends[i].buffer)
                 ELSE WriteAt(fs, p, appends[i].offset, appends[i].buffer)
        /\ appends' = [appends EXCEPT ![i].pc = "done",
                          ![i].offset = @ + Len(appends[i].buffer),
                          ![i].buffer = <<>>]
        /\ UNCHANGED <<call, nops, hdr, ledger, runs, ctl, job>>

\* Writers calls on one ledger path, which is absent or holds what an
\* earlier call left.
InitAppends ==
    /\ call = NoCall
    /\ nops = 0
    /\ hdr = AppendHeader
    /\ runs = <<>>
    /\ ctl = NoRun
    /\ job = NoJob
    /\ \E csv_path \in AppendPaths, there \in BOOLEAN :
          /\ fs = IF there THEN Place(EmptyFs, resolve(csv_path), EarlierLedger)
                  ELSE EmptyFs
          /\ ledger = NoLedger(fs)
          /\ \E rows \in [1..Writers -> AppendRows] :
                appends = [i \in 1..Writers |->
                              [pc |-> "exists", csv_path |-> csv_path,
                               row |-> rows[i], created |-> FALSE, mode |-> "",
                               offset |-> 0, buffer |-> <<>>,
                               ret |-> [status |-> "none"]]]

NextAppends ==
    \/ AppendExists
    \/ AppendMkdir
    \/ AppendMode
    \/ AppendOpen
    \/ AppendHeaderWrite
    \/ AppendRowWrite
    \/ AppendClose

SpecAppends == InitAppends /\ [][NextAppends]_vars

----------------------------------------------------------------------------
(* Properties of fs_write_text and fs_mkdir *)

\* A regular file lies at a proper ancestor of p.
FileAbove(f, p) == \E k \in 0..(Len(p) - 1) : f[Prefix(p, k)].kind = "file"

\* f with the missing ancestors of p made directories.
WithParents(f, p) ==
    [q \in AllNodes |->
        IF Len(q) < Len(p) /\ q = Prefix(p, Len(q)) /\ ~Exists(f, q)
        THEN DirEntry ELSE f[q]]

\* C5 as claimed: with an existing target and overwrite false the call is an
\* error that changes nothing; in every other case it succeeds, the missing
\* parents are directories, the file holds the content, and the result is the
\* resolved path with the UTF-8 byte count.
C5_WriteTextAsClaimed ==
    [][call'.op = "fs_write_text" =>
        LET p == resolve(call'.path) IN
        IF Exists(fs, p) /\ ~call'.overwrite
        THEN call'.ret.status = "error" /\ fs' = fs
        ELSE /\ call'.ret.status = "success"
             /\ call'.ret.path = p
             /\ call'.ret.bytes = Len(Utf8(call'.content))
             /\ fs' = [WithParents(fs, p) EXCEPT ![p] = FileEntry(Utf8(call'.content))]
      ]_vars

\* C5 amended: the overwrite guard is as claimed; past it the call succeeds
\* exactly when no regular file lies above the target, the target is not a
\* directory and the content has no lone surrogate.  A failure past the guard
\* writes no file: it leaves the file system unchanged, except that content
\* that cannot be encoded is found only after the missing parents were made.
C5_WriteText ==
    [][call'.op = "fs_write_text" =>
        LET p == resolve(call'.path)
            c == call'.content
        IN  IF Exists(fs, p) /\ ~call'.overwrite
            THEN call'.ret.status = "error" /\ fs' = fs
            ELSE IF FileAbove(fs, p) \/ IsDir(fs, p)
            THEN call'.ret.status = "error" /\ fs' = fs
            ELSE IF ~Encodable(c)
            THEN call'.ret.status = "error" /\ fs' = WithParents(fs, p)
            ELSE /\ call'.ret.status = "success"
                 /\ call'.ret.path = p
                 /\ call'.ret.bytes = Len(Utf8(c))
                 /\ fs' = [WithParents(fs, p) EXCEPT ![p] = FileEntry(Utf8(c))]
      ]_vars

\* C5 witness: a second call that overwrites with a multi-byte text and
\* reports its four bytes.
C5_Witness ==
    /\ call.op = "fs_write_text"
    /\ call.overwrite
    /\ call.ret.status = "success"
    /\ call.content = <<8364, 97>>
    /\ call.ret.bytes = 4
    /\ nops = 2

\* C8 as claimed: mkdir succeeds on every path, created = TRUE exactly when
\* nothing was at the path, and a directory is there afterwards.
C8_MkdirAsClaimed ==
    [][call'.op = "fs_mkdir" =>
        LET p == resolve(call'.path) IN
        /\ call'.ret.status = "success"
        /\ call'.ret.created = ~Exists(fs, p)
        /\ IsDir(fs', p)
      ]_vars

\* C8 amended: mkdir is an error, and changes nothing, exactly when a regular
\* file lies at the path or above it; otherwise it succeeds, created = TRUE
\* exactly when nothing was at the path (FALSE when a directory was), it only
\* adds the path and its missing ancestors as directories, and a second mkdir
\* of the same path right after a successful one succeeds with created = FALSE
\* and changes nothing.
C8_Mkdir ==
    [][call'.op = "fs_mkdir" =>
        LET p == resolve(call'.path) IN
        IF FileAbove(fs, p) \/ fs[p].kind = "file"
        THEN call'.ret.status = "error" /\ fs' = fs
        ELSE /\ call'.ret.status = "success"
             /\ call'.ret.path = p
             /\ call'.ret.created = ~Exists(fs, p)
             /\ fs' = [WithParents(fs, p) EXCEPT ![p] = DirEntry]
             /\ (call.op = "fs_mkdir" /\ call.ret.status = "success"
                    /\ resolve(call.path) = p)
                => (call'.ret.created = FALSE /\ fs' = fs)
      ]_vars

\* C8 witness: a second mkdir of a two-component path, answering
\* created = FALSE.
C8_Witness ==
    /\ call.op = "fs_mkdir"
    /\ call.ret.status = "success"
    /\ call.ret.created = FALSE
    /\ Len(resolve(call.path)) = 2
    /\ nops = 2

----------------------------------------------------------------------------
(* Properties of the controller *)

AbsentOrEmpty(x) == x \in {"absent", "empty"}

NothingCalled == ctl.log = <<>> /\ \A a \in AgentSet : ctl.calls[a] = 0

\* C1: when base_resume_path is absent or empty the run can only be at its
\* start or halted in waiting_for_input with missing_fields
\* ["base_resume_path"]; when base_resume_path is given and job_url and
\* raw_jd_text are both absent or empty, the same with
\* ["job_url_or_raw_jd_text"]; in both cases no agent has been called, the
\* start always moves on, and nothing follows waiting_for_input.
C1_EntryGuard ==
    LET noBase == AbsentOrEmpty(ctl.base_resume_path)
        noJob == AbsentOrEmpty(ctl.job_url) /\ AbsentOrEmpty(ctl.raw_jd_text)
        field == IF noBase THEN "base_resume_path" ELSE "job_url_or_raw_jd_text"
    IN  (noBase \/ noJob) =>
            /\ ctl.pc \in {"input", "waiting_for_input"}
            /\ ctl.pc = "input" => ENABLED InputRules
            /\ ctl.pc = "waiting_for_input" =>
                  /\ ctl.reply = [status |-> "waiting_for_input",
                                  missing_fields |-> <<field>>]
                  /\ ~ENABLED NextCtl
            /\ NothingCalled

\* C1 witness: the resume path is given, the job URL is empty and the job
\* text absent, and the controller has answered waiting_for_input.
C1_Witness ==
    /\ ctl.pc = "waiting_for_input"
    /\ ctl.base_resume_path = "given"
    /\ ctl.job_url = "empty"
    /\ ctl.raw_jd_text = "absent"
    /\ ctl.reply.missing_fields = <<"job_url_or_raw_jd_text">>
    /\ NothingCalled

StageIndex(a) == CHOOSE i \in DOMAIN Agents : Agents[i] = a

\* The validators as the specification describes them.
PassedValidator(a) ==
    /\ ctl.calls[a] > 0
    /\ IF a = "JobIntel"
       THEN /\ ctl.out[a].job_id = "given"
            /\ ctl.out[a].must_have # <<>>
            /\ ctl.out[a].keywords_for_ats # <<>>
            /\ ctl.out[a].resume_focus # <<>>
       ELSE IF a = "ResumeTailor"
       THEN ~ctl.out[a].fabrication /\ ctl.out[a].matched_keywords # <<>>
       ELSE ~ctl.out[a].unverifiable

\* C2: the agents are called in the order JobIntel, ResumeTailor,
\* ResumeAnalyser, CoverLetter, Scorer (optional), ApplicationTracker, and an
\* agent has been called only if the output of the stage before it passed
\* that stage's validator; for JobIntel that is a non-empty job_id and
\* non-empty must_have, keywords_for_ats and resume_focus.
C2_StageOrder ==
    /\ \A i, j \in DOMAIN ctl.log :
          i < j => StageIndex(ctl.log[i]) <= StageIndex(ctl.log[j])
    /\ \A k \in 2..Len(Agents) :
          ctl.calls[Agents[k]] > 0 =>
             IF Agents[k - 1] = "Scorer"
             THEN /\ PassedValidator("CoverLetter")
                  /\ ctl.scorer_available => PassedValidator("Scorer")
             ELSE PassedValidator(Agents[k - 1])

\* C3: no agent is called more than twice, and after the second refused
\* output of one agent the run is over.
C3_BoundedRetry ==
    \A a \in AgentSet :
        /\ ctl.calls[a] <= 2
        /\ ctl.refused[a] >= 2 => ctl.pc = "rejected"

Downstream == {"ResumeAnalyser", "CoverLetter", "Scorer", "ApplicationTracker"}

FailsTailorCheck(o) == o.fabrication \/ o.matched_keywords = <<>>

\* The statement of C10 as written: once a tailor output has failed the
\* check the run has ended as rejected and no downstream agent was called.
C10_AsClaimed ==
    ctl.refused["ResumeTailor"] > 0 =>
        /\ ctl.pc = "rejected"
        /\ \A d \in Downstream : ctl.calls[d] = 0

\* C10: while the latest tailor output carries a fabrication flag or an empty
\* matched_keywords list, the controller is looking at it, has ended the run
\* as rejected, or is about to call the tailor again; no downstream agent has
\* been called, no tracker output exists and no bundle was returned. A
\* rejected run is final, and a run is done only with a tailor output that
\* passed the check.
C10_TailoringRejection ==
    /\ (ctl.calls["ResumeTailor"] > 0 /\ FailsTailorCheck(ctl.out["ResumeTailor"])) =>
          /\ ctl.pc \in {"step4", "step3", "rejected"}
          /\ ctl.pc = "step3" => ctl.refused["ResumeTailor"] > 0
          /\ \A d \in Downstream : ctl.calls[d] = 0
          /\ ctl.out["ApplicationTracker"] = NoOutput
          /\ ctl.reply = NoReply
    /\ ctl.pc = "rejected" =>
          /\ FailsTailorCheck(ctl.out["ResumeTailor"])
          /\ ~ENABLED NextCtl
    /\ ctl.pc = "done" =>
          /\ ctl.calls["ResumeTailor"] > 0
          /\ ~FailsTailorCheck(ctl.out["ResumeTailor"])

\* C10 witness: a tailor output with a fabrication flag was answered by a
\* second call, and the second output, with no matched keyword, ended the
\* run.
C10_Witness ==
    /\ ctl.pc = "rejected"
    /\ ctl.calls["ResumeTailor"] = 2
    /\ ctl.refused["ResumeTailor"] = 2
    /\ ctl.out["ResumeTailor"].matched_keywords = <<>>
    /\ ~ctl.out["ResumeTailor"].fabrication

----------------------------------------------------------------------------
(* Properties of a job's artifacts *)

\* C11: in every state of a run that began with a base resume file on disk,
\* the file at base_resume_path is what it was when the run began, whatever
\* value of overwrite the writes are made with and whether job_id is there
\* or missing.
C11_BaseUnchanged ==
    (job.pc # "idle" /\ job.base_at_start.kind = "file") =>
        fs[resolve(job.base_resume_path)] = job.base_at_start

----------------------------------------------------------------------------
(* Properties of interleaved csv_append_row calls *)

\* The record of the row of call i.
RowRecord(i) ==
    Utf8(FormatRecord([k \in 1..Len(hdr) |-> Get(appends[i].row, hdr[k])]))

\* C12: once two calls on the same ledger path have both returned success,
\* however their statements interleaved, the file holds what it held before
\* (or, if it was absent, the header once) and then the row of each call, in
\* one order or the other.
C12_AppendOnly ==
    (/\ Len(appends) = 2
     /\ \A i \in DOMAIN appends :
           appends[i].pc = "done" /\ appends[i].ret.status = "success") =>
        LET p == resolve(appends[1].csv_path)
            before == IF ledger[p].fresh THEN Utf8(FormatRecord(hdr))
                      ELSE EarlierLedger
        IN  fs[p].data \in {before \o RowRecord(1) \o RowRecord(2),
                            before \o RowRecord(2) \o RowRecord(1)}

====
